---- MODULE Spec2Model ----
(***************************************************************************)
(* Model of scripts/fetch-and-update.py: the IOF fetcher (fetch_iof), the  *)
(* JOA fetcher (fetch_joa_page, fetch_joa) and the orchestrator (main)     *)
(* with the data directory it reads and writes.                            *)
(***************************************************************************)
EXTENDS Integers, Sequences, FiniteSets, TLC

VARIABLES
    iofData,     \* fetch_iof: the decoded JSON array of the response (data)
    iofOut,      \* fetch_iof: the call's outcome (done, athletes)
    joaSite,     \* fetch_joa: the ranking site the pages are fetched from
    joaOut,      \* fetch_joa: the call's outcome (done, raised, athletes, pages requested)
    day,         \* the calendar date the system clock showed when it was last read
    runNo,       \* invocations of main() so far; stands for the time of day of the clock
    started,     \* the date on which each invocation started
    budget,      \* invocations still to come, and the conditions they may meet
    mode,        \* the condition of network and disk during this invocation
    pc,          \* "idle" between invocations of main(), "run" inside one
    step,        \* main: position in the loop over (discipline, gender, source)
    today_str,   \* main: today_str
    index,       \* main: index, as loaded
    date_entry,  \* main: date_entry
    saved,       \* main: saved
    log,         \* main: the "->" and "error" lines printed, one per attempt
    outcomes,    \* what the environment did to each attempt of this invocation
    report,      \* main: the files and athletes of the final "Done" line
    files,       \* data directory: the snapshot files, name -> content
    indexFile,   \* data directory: index.json
    latestFile   \* data directory: latest.json

fetchVars == <<iofData, iofOut, joaSite, joaOut>>
mainVars == <<day, runNo, started, budget, mode, pc, step, today_str, index, date_entry,
              saved, log, outcomes, report, files, indexFile, latestFile>>
vars == <<fetchVars, mainVars>>

(***************************************************************************)
(* Bounds of the model.                                                    *)
(***************************************************************************)
MaxEntries == 2        \* entries in one IOF response
MaxSitePages == 52     \* highest page index at which a JOA site can end
MaxPer == 2            \* ranking rows on one JOA page
MaxDay == 2            \* calendar dates the clock runs through
MaxRuns == 2           \* invocations of main() in one behaviour

(***************************************************************************)
(* Program constants.                                                      *)
(***************************************************************************)
Sentinel == 99999      \* sort key of a falsy rank
MaxPage == 50          \* while page <= 50
NoDate == 0            \* "latestDate": "" of the default index

(***************************************************************************)
(* JSON values of an IOF entry's fields. A key that is absent reads as     *)
(* None through dict.get, like a key whose value is null.                  *)
(***************************************************************************)
JNull == [t |-> "null", v |-> 0]
Absent == [t |-> "absent", v |-> 0]
JInt(n) == [t |-> "int", v |-> n]

\* entry.get(key): None when the key is absent
Get(entry, key) == IF entry[key] = Absent THEN JNull ELSE entry[key]

\* Python truth value of a JSON value: None and 0 are falsy
Truthy(x) == x.t = "int" /\ x.v # 0

\* a plausible slip: "first non-null" instead of Python's "first truthy"
OrNonNull(a, b) == IF a.t # "null" THEN a ELSE b

\* Python's  a or b
Or(a, b) == IF Truthy(a) THEN a ELSE b

\* entry.get(k1) or entry.get(k2) or 0, as the integer it evaluates to
FirstOr(entry, k1, k2) == Or(Or(Get(entry, k1), Get(entry, k2)), JInt(0)).v

\* one element of the athletes list; src is the index of the entry it was
\* built from (bookkeeping of the model, no field of the program)
Athlete(entry, i) ==
    [rank |-> FirstOr(entry, "pos", "wrsPosition"),
     iofId |-> FirstOr(entry, "iofid", "personId"),
     src |-> i]

\* key=lambda a: a["rank"] or 99999
SortKey(a) == IF a.rank # 0 THEN a.rank ELSE Sentinel

\* position at which x goes into the sorted list s: after every element whose
\* key is not greater (list.sort is stable)
RECURSIVE InsertPos(_, _, _)
InsertPos(x, s, i) ==
    IF i > Len(s) THEN i
    ELSE IF SortKey(s[i]) > SortKey(x) THEN i
    ELSE InsertPos(x, s, i + 1)

Insert(x, s) ==
    LET p == InsertPos(x, s, 1)
    IN SubSeq(s, 1, p - 1) \o <<x>> \o SubSeq(s, p, Len(s))

\* athletes.sort(key=...)
RECURSIVE SortAthletes(_)
SortAthletes(s) ==
    IF s = <<>> THEN <<>>
    ELSE Insert(s[Len(s)], SortAthletes(SubSeq(s, 1, Len(s) - 1)))

\* the athletes of the snapshot fetch_iof returns for the response data
FetchIofAthletes(data) ==
    SortAthletes([i \in 1..Len(data) |-> Athlete(data[i], i)])

(***************************************************************************)
(* IOF responses of the model.                                             *)
(***************************************************************************)
PosVals == {Absent, JNull, JInt(0), JInt(2), JInt(100000)}
WrsVals == {Absent, JInt(0), JInt(3)}
IofidVals == {JNull, JInt(0), JInt(7)}
PersonVals == {Absent, JInt(9)}

Entries == [pos : PosVals, wrsPosition : WrsVals, iofid : IofidVals, personId : PersonVals]

Responses == UNION {[1..n -> Entries] : n \in 0..MaxEntries}

(***************************************************************************)
(* JOA: a ranking site. Page stop is where the site ends, in the way kind  *)
(* says; every other page holds a header row, per ranking rows and links   *)
(* to its neighbours.                                                      *)
(***************************************************************************)
Kinds == {"nolink", "norows", "notable", "error"}

Sites == [stop : 0..MaxSitePages, kind : Kinds, per : 1..MaxPer]

\* text of a table cell that int() / float() accepts, and one it rejects
Num(n) == [num |-> TRUE, val |-> n]
NaN == [num |-> FALSE, val |-> 0]

HeaderRow == [ncols |-> 0, rank_text |-> NaN, name |-> "", club |-> "", points_text |-> NaN]

\* ranking row j of page p: the last row of an odd page carries a rank that
\* is no number
RankRow(site, p, j) ==
    [ncols |-> 4,
     rank_text |-> IF j = site.per /\ p % 2 = 1 THEN NaN ELSE Num(p * site.per + j),
     name |-> "n",
     club |-> "c",
     points_text |-> Num(1000 - p)]

\* rows that fetch_joa_page discards: too few cells, or an empty name
JunkRows ==
    <<[ncols |-> 3, rank_text |-> Num(1), name |-> "n", club |-> "c", points_text |-> NaN],
      [ncols |-> 4, rank_text |-> Num(1), name |-> "", club |-> "c", points_text |-> Num(1)]>>

\* the document served for page p
PageOf(site, p) ==
    LET rows == <<HeaderRow>> \o [j \in 1..site.per |-> RankRow(site, p, j)]
        both == {q \in {p - 1, p + 1} : q >= 0}
    IN IF p # site.stop
       THEN [status |-> "ok", table |-> TRUE, rows |-> rows, links |-> both]
       ELSE CASE site.kind = "nolink" ->
                   [status |-> "ok", table |-> TRUE, rows |-> rows, links |-> both \ {p + 1}]
              [] site.kind = "norows" ->
                   [status |-> "ok", table |-> TRUE, rows |-> <<HeaderRow>> \o JunkRows, links |-> both]
              [] site.kind = "notable" ->
                   [status |-> "ok", table |-> FALSE, rows |-> <<>>, links |-> both]
              [] site.kind = "error" ->
                   [status |-> "error", table |-> FALSE, rows |-> <<>>, links |-> {}]

\* int(rank_text) with ValueError -> 0; float(points_text) likewise
ParseNum(t) == IF t.num THEN t.val ELSE 0

\* the athlete of one table row
RowAthlete(r) ==
    [rank |-> ParseNum(r.rank_text), name |-> r.name, nameJa |-> r.name,
     club |-> r.club, points |-> ParseNum(r.points_text)]

\* the rows kept: at least 4 cells and a name
RECURSIVE ParseRows(_)
ParseRows(rows) ==
    IF rows = <<>> THEN <<>>
    ELSE LET r == Head(rows)
         IN IF r.ncols < 4 \/ r.name = ""
            THEN ParseRows(Tail(rows))
            ELSE <<RowAthlete(r)>> \o ParseRows(Tail(rows))

\* fetch_joa_page: raised on an HTTP error, else (athletes, has_next)
FetchJoaPage(site, page) ==
    LET doc == PageOf(site, page)
    IN IF doc.status # "ok"
       THEN [raised |-> TRUE, athletes |-> <<>>, has_next |-> FALSE]
       ELSE IF ~doc.table
       THEN [raised |-> FALSE, athletes |-> <<>>, has_next |-> FALSE]
       ELSE [raised |-> FALSE, athletes |-> ParseRows(doc.rows),
             has_next |-> (page + 1) \in doc.links]

\* a loop that runs one page too far
LoopCondOff(page) == page <= MaxPage + 1

\* while page <= 50
LoopCond(page) == page <= MaxPage

\* a break that forgets the empty page
BreakCondNoRows(athletes, has_next) == ~has_next

\* if not has_next or not athletes: break
BreakCond(athletes, has_next) == ~has_next \/ athletes = <<>>

\* the loop of fetch_joa from page on, with all_athletes so far and the pages
\* requested so far
RECURSIVE JoaLoop(_, _, _, _)
JoaLoop(site, page, all, req) ==
    IF ~LoopCond(page)
    THEN [raised |-> FALSE, athletes |-> all, requested |-> req]
    ELSE LET r == FetchJoaPage(site, page)
             req2 == Append(req, page)
             all2 == all \o r.athletes
         IN IF r.raised
            THEN [raised |-> TRUE, athletes |-> <<>>, requested |-> req2]
            ELSE IF BreakCond(r.athletes, r.has_next)
            THEN [raised |-> FALSE, athletes |-> all2, requested |-> req2]
            ELSE JoaLoop(site, page + 1, all2, req2)

\* fetch_joa for a pair of JOA_CATEGORIES
FetchJoa(site) == JoaLoop(site, 0, <<>>, <<>>)

(***************************************************************************)
(* main: the loop over disciplines, genders and the two sources.           *)
(***************************************************************************)
Disciplines == <<"foot", "sprint">>
Genders == <<"M", "W">>
Sources == <<"iof", "joa">>

DISCIPLINE_DISPLAY == [foot |-> "FootO", sprint |-> "Sprint"]

JOA_CATEGORIES ==
    [k \in {<<"foot", "M">>, <<"foot", "W">>, <<"sprint", "M">>, <<"sprint", "W">>} |->
        CASE k = <<"foot", "M">> -> <<5, 39>>
          [] k = <<"foot", "W">> -> <<5, 46>>
          [] k = <<"sprint", "M">> -> <<17, 85>>
          [] k = <<"sprint", "W">> -> <<17, 86>>]

\* gender.lower()
Lower(gender) == IF gender = "M" THEN "m" ELSE "w"

\* source.upper() of the snapshot's source tag
Tag(source) == IF source = "iof" THEN "IOF" ELSE "JOA"

\* attempts of one invocation: per discipline, per gender, IOF then JOA
NumAttempts == Len(Disciplines) * Len(Genders) * Len(Sources)

AttemptAt(i) ==
    [discipline |-> Disciplines[((i - 1) \div (Len(Genders) * Len(Sources))) + 1],
     gender |-> Genders[(((i - 1) \div Len(Sources)) % Len(Genders)) + 1],
     source |-> Sources[((i - 1) % Len(Sources)) + 1]]

\* datetime.now(): the date, and the invocation as the time of day
Stamp(d, r) == [day |-> d, run |-> r]

\* f"{source}_{discipline}_{g}"
IndexKey(source, discipline, g) == <<source, discipline, g>>

\* a file name that carries the time of the invocation
FileNameStamped(source, discipline, g, d) == <<source, discipline, g, d, runNo>>

\* f"{source}_{discipline}_{g}_{date}.json"
FileName(source, discipline, g, d) == <<source, discipline, g, d, "json">>

\* the response of the IOF endpoint during invocation r: r entries, best last
IofFeed(r) ==
    [i \in 1..r |->
        [pos |-> JInt(r + 1 - i), wrsPosition |-> Absent, iofid |-> JInt(i), personId |-> Absent]]

\* the JOA site during invocation r: two pages of r rows, or an HTTP error
\* on the second page
JoaFeed(r, broken) ==
    [stop |-> 1, kind |-> IF broken THEN "error" ELSE "nolink", per |-> r]

\* the dict fetch_iof / fetch_joa returns, as the file it is dumped to; now is
\* the date the clock shows, mtime the invocation that wrote the file
Snapshot(source, discipline, gender, now, athletes) ==
    [kind |-> "json", source |-> Tag(source), discipline |-> DISCIPLINE_DISPLAY[discipline],
     gender |-> gender, date |-> now, fetchedAt |-> Stamp(now, runNo), athletes |-> athletes,
     mtime |-> runNo]

\* what the clock can show when it is read next: the date it showed last, or
\* a later one
ClockAfter(d, nights) == {n \in d..(d + nights) : n <= MaxDay}

\* a file opened for writing whose json.dump raised: truncated, no document
Partial ==
    [kind |-> "partial", source |-> "", discipline |-> "", gender |-> "",
     date |-> NoDate, fetchedAt |-> Stamp(NoDate, 0), athletes |-> <<>>, mtime |-> runNo]

\* a reference that counts the files saved instead of the athletes
RefCountsSaved(file, data) == [file |-> file, count |-> Len(saved) + 1]

\* {"file": ..., "count": len(data["athletes"])}
Ref(file, data) == [file |-> file, count |-> Len(data.athletes)]

\* a loop that an exception leaves
NextStepAbort(i, raised) == IF raised THEN NumAttempts + 1 ELSE i + 1

\* the next attempt, after the try block or its except clause
NextStep(i, raised) == i + 1

DefaultIndex == [latestDate |-> NoDate, dates |-> <<>>]

\* an update that drops the other dates
UpdateIndexOnlyToday(idx, today, entry) ==
    [latestDate |-> today, dates |-> (today :> entry)]

\* an update that is skipped when nothing was saved
UpdateIndexSkipEmpty(idx, today, entry) ==
    IF DOMAIN entry.refs = {} THEN idx
    ELSE [latestDate |-> today, dates |-> (today :> entry) @@ idx.dates]

\* index["latestDate"] = today_str; index["dates"][today_str] = date_entry
UpdateIndex(idx, today, entry) ==
    [latestDate |-> today, dates |-> (today :> entry) @@ idx.dates]

RECURSIVE SumCounts(_)
SumCounts(s) == IF s = <<>> THEN 0 ELSE s[1][2] + SumCounts(Tail(s))

NoReport == [done |-> FALSE, files |-> 0, athletes |-> 0]

\* what the environment does to one attempt: nothing; an exception before
\* the snapshot file is opened (HTTP error, timeout, JSON decode error);
\* an exception of json.dump after the file was opened for writing
Outcomes == {"ok", "fetch_error", "write_error"}

\* conditions of one invocation: all well; the IOF endpoint, the JOA site or
\* the whole network down; the disk full
Modes == {"fair", "iof_down", "joa_down", "net_down", "disk_full"}

\* what can happen to an attempt on source under a condition; under "flaky"
\* every attempt fails or succeeds on its own
OutcomesUnder(m, source) ==
    CASE m = "fair" -> {"ok"}
      [] m = "iof_down" -> IF source = "iof" THEN {"fetch_error"} ELSE {"ok"}
      [] m = "joa_down" -> IF source = "joa" THEN {"fetch_error"} ELSE {"ok"}
      [] m = "net_down" -> {"fetch_error"}
      [] m = "disk_full" -> {"write_error"}
      [] m = "flaky" -> Outcomes

\* lines 154-169: load the index, start date_entry and saved
StartRun ==
    /\ pc = "idle"
    /\ budget.runs > 0
    /\ pc' = "run"
    /\ step' = 1
    /\ runNo' = runNo + 1
    /\ budget' = [budget EXCEPT !.runs = @ - 1]
    /\ mode' \in budget.modes
    /\ \E now \in ClockAfter(day, MaxDay) :
          /\ day' = now
          /\ started' = Append(started, now)
          /\ today_str' = now
          /\ date_entry' = [updatedAt |-> Stamp(now, runNo + 1), refs |-> <<>>]
    /\ index' = IF indexFile.exists THEN indexFile.content ELSE DefaultIndex
    /\ saved' = <<>>
    /\ log' = <<>>
    /\ outcomes' = <<>>
    /\ report' = NoReport
    /\ UNCHANGED <<files, indexFile, latestFile, fetchVars>>

\* the effect of one try block on files, date_entry, saved and log: raised
\* says whether the fetch raised, out what the environment does to the write
TryBlock(a, raised, out, file, data) ==
    LET ok == ~raised /\ out = "ok"
    IN /\ files' = IF raised THEN files
                   ELSE IF out = "write_error" THEN (file :> Partial) @@ files
                   ELSE (file :> data) @@ files
       /\ date_entry' =
            IF ok
            THEN [date_entry EXCEPT
                     !.refs = (IndexKey(a.source, a.discipline, Lower(a.gender)) :> Ref(file, data)) @@ @]
            ELSE date_entry
       /\ saved' = IF ok THEN Append(saved, <<file, Len(data.athletes)>>) ELSE saved
       /\ log' = Append(log, [kind |-> IF ok THEN "saved" ELSE "error", source |-> a.source,
                              discipline |-> a.discipline, gender |-> a.gender])
       /\ step' = NextStep(step, ~ok)

\* lines 176-189: the IOF try block of one (discipline, gender)
AttemptIof ==
    /\ pc = "run"
    /\ step <= NumAttempts
    /\ AttemptAt(step).source = "iof"
    /\ \E out \in OutcomesUnder(mode, "iof"), now \in ClockAfter(day, 1) :
          /\ LET a == AttemptAt(step)
                 raised == out = "fetch_error"
                 data == Snapshot("iof", a.discipline, a.gender, now,
                                  FetchIofAthletes(IofFeed(runNo)))
                 file == FileName("iof", a.discipline, Lower(a.gender), today_str)
             IN TryBlock(a, raised, out, file, data)
          /\ outcomes' = Append(outcomes, out)
          /\ day' = now
    /\ UNCHANGED <<runNo, started, budget, mode, pc, today_str, index, report, indexFile,
                   latestFile, fetchVars>>

\* lines 192-208: the JOA try block of one (discipline, gender)
AttemptJoa ==
    /\ pc = "run"
    /\ step <= NumAttempts
    /\ AttemptAt(step).source = "joa"
    /\ \E out \in OutcomesUnder(mode, "joa"), now \in ClockAfter(day, 1) :
          /\ LET a == AttemptAt(step)
                 r == FetchJoa(JoaFeed(runNo, out = "fetch_error"))
                 data == Snapshot("joa", a.discipline, a.gender, now, r.athletes)
                 file == FileName("joa", a.discipline, Lower(a.gender), data.date)
             IN IF <<a.discipline, a.gender>> \notin DOMAIN JOA_CATEGORIES
                THEN /\ step' = step + 1
                     /\ UNCHANGED <<files, date_entry, saved, log>>
                ELSE TryBlock(a, r.raised, out, file, data)
          /\ outcomes' = Append(outcomes, out)
          /\ day' = now
    /\ UNCHANGED <<runNo, started, budget, mode, pc, today_str, index, report, indexFile,
                   latestFile, fetchVars>>

\* lines 210-222: update the index, write index.json and latest.json, report
FinishRun ==
    /\ pc = "run"
    /\ step > NumAttempts
    /\ index' = UpdateIndex(index, today_str, date_entry)
    /\ indexFile' = [exists |-> TRUE, content |-> index']
    /\ latestFile' = [exists |-> TRUE, content |-> index']
    /\ report' = [done |-> TRUE, files |-> Len(saved), athletes |-> SumCounts(saved)]
    /\ pc' = "idle"
    /\ UNCHANGED <<day, runNo, started, budget, mode, step, today_str, date_entry, saved, log,
                   outcomes, files, fetchVars>>

\* the state before the first invocation: an empty data directory
InitMain(runs, modes) ==
    /\ day = 1
    /\ runNo = 0
    /\ started = <<>>
    /\ budget = [runs |-> runs, modes |-> modes]
    /\ mode = "fair"
    /\ pc = "idle"
    /\ step = 1
    /\ today_str = NoDate
    /\ index = DefaultIndex
    /\ date_entry = [updatedAt |-> Stamp(NoDate, 0), refs |-> <<>>]
    /\ saved = <<>>
    /\ log = <<>>
    /\ outcomes = <<>>
    /\ report = NoReport
    /\ files = <<>>
    /\ indexFile = [exists |-> FALSE, content |-> DefaultIndex]
    /\ latestFile = [exists |-> FALSE, content |-> DefaultIndex]

\* values of the variables a specification does not use
NoOut == [done |-> FALSE, raised |-> FALSE, athletes |-> <<>>, requested |-> <<>>]
NoSite == [stop |-> 0, kind |-> "nolink", per |-> 1]

NoFetch ==
    /\ iofData = <<>>
    /\ iofOut = NoOut
    /\ joaSite = NoSite
    /\ joaOut = NoOut

Next == StartRun \/ AttemptIof \/ AttemptJoa \/ FinishRun

\* sequential invocations of main(), each under one of the conditions
Init == InitMain(MaxRuns, Modes) /\ NoFetch

Spec == Init /\ [][Next]_vars

\* one invocation of main() in which any attempt may fail
InitRun == InitMain(1, {"flaky"}) /\ NoFetch

SpecRun == InitRun /\ [][Next]_vars

(***************************************************************************)
(* fetch_iof applied to a response.                                        *)
(***************************************************************************)
InitIof ==
    /\ iofData \in Responses
    /\ iofOut = NoOut
    /\ joaSite = NoSite
    /\ joaOut = NoOut
    /\ InitMain(0, {})

CallFetchIof ==
    /\ ~iofOut.done
    /\ iofOut' = [done |-> TRUE, raised |-> FALSE,
                  athletes |-> FetchIofAthletes(iofData), requested |-> <<>>]
    /\ UNCHANGED <<iofData, joaSite, joaOut, mainVars>>

SpecIof == InitIof /\ [][CallFetchIof]_vars

(***************************************************************************)
(* fetch_joa applied to a site.                                            *)
(***************************************************************************)
InitJoa ==
    /\ joaSite \in Sites
    /\ joaOut = NoOut
    /\ iofData = <<>>
    /\ iofOut = NoOut
    /\ InitMain(0, {})

CallFetchJoa ==
    /\ ~joaOut.done
    /\ joaOut' = [done |-> TRUE] @@ FetchJoa(joaSite)
    /\ UNCHANGED <<iofData, iofOut, joaSite, mainVars>>

SpecJoa == InitJoa /\ [][CallFetchJoa]_vars

(***************************************************************************)
(* Properties of fetch_iof.                                                *)
(***************************************************************************)
\* the value of a field that is present and not null
NonNull(x) == x.t = "int"

\* first non-null of two fields, else 0
FirstNonNull(entry, k1, k2) ==
    IF NonNull(entry[k1]) THEN entry[k1].v
    ELSE IF NonNull(entry[k2]) THEN entry[k2].v
    ELSE 0

\* first of two fields that is neither missing, null nor 0, else 0
FirstNonZero(entry, k1, k2) ==
    IF NonNull(entry[k1]) /\ entry[k1].v # 0 THEN entry[k1].v
    ELSE IF NonNull(entry[k2]) /\ entry[k2].v # 0 THEN entry[k2].v
    ELSE 0

\* every entry of the response gave exactly one athlete
OneAthletePerEntry ==
    /\ Len(iofOut.athletes) = Len(iofData)
    /\ \A i \in 1..Len(iofData) : \E j \in 1..Len(iofOut.athletes) : iofOut.athletes[j].src = i

\* C6: the athletes fetch_iof returns have the non-zero ranks in non-decreasing
\* order and every rank-0 athlete after every athlete with a non-zero rank.
C6_SortedZeroLast ==
    iofOut.done =>
        \A i, j \in 1..Len(iofOut.athletes) :
            i < j =>
                LET ri == iofOut.athletes[i].rank
                    rj == iofOut.athletes[j].rank
                IN /\ (ri # 0 /\ rj # 0) => ri <= rj
                   /\ ~(ri = 0 /\ rj # 0)

\* C7 as claimed: rank is the first non-null of pos and wrsPosition, else 0,
\* and iofId the first non-null of iofid and personId, else 0.
C7_FirstNonNull ==
    iofOut.done =>
        /\ OneAthletePerEntry
        /\ \A j \in 1..Len(iofOut.athletes) :
              LET a == iofOut.athletes[j]
              IN /\ a.rank = FirstNonNull(iofData[a.src], "pos", "wrsPosition")
                 /\ a.iofId = FirstNonNull(iofData[a.src], "iofid", "personId")

\* C7 amended: rank is the first of pos and wrsPosition that is neither
\* missing, null nor 0, else 0; iofId likewise from iofid then personId.
C7_FirstNonZero ==
    iofOut.done =>
        /\ OneAthletePerEntry
        /\ \A j \in 1..Len(iofOut.athletes) :
              LET a == iofOut.athletes[j]
              IN /\ a.rank = FirstNonZero(iofData[a.src], "pos", "wrsPosition")
                 /\ a.iofId = FirstNonZero(iofData[a.src], "iofid", "personId")

\* an entry whose pos is 0 and whose wrsPosition is 3 was given rank 3, and
\* one whose iofid is 0 was given its personId
C7_Witness ==
    /\ iofOut.done
    /\ \E j \in 1..Len(iofOut.athletes) :
          LET a == iofOut.athletes[j]
              e == iofData[a.src]
          IN /\ e.pos = JInt(0) /\ e.wrsPosition = JInt(3) /\ a.rank = 3
             /\ e.iofid = JInt(0) /\ e.personId = JInt(9) /\ a.iofId = 9

(***************************************************************************)
(* Properties of fetch_joa.                                                *)
(***************************************************************************)
\* the ranking rows the document of page p holds (none without a table)
RowsOfPage(site, p) ==
    LET doc == PageOf(site, p)
    IN IF doc.status = "ok" /\ doc.table THEN ParseRows(doc.rows) ELSE <<>>

\* page p is served, and yields zero rows or has no link to page p + 1
EndsAt(site, p) ==
    LET doc == PageOf(site, p)
    IN /\ doc.status = "ok"
       /\ RowsOfPage(site, p) = <<>> \/ (p + 1) \notin doc.links

HasEnd(site) == \E k \in 0..(MaxSitePages + 1) : EndsAt(site, k)

FirstEnd(site) ==
    CHOOSE k \in 0..(MaxSitePages + 1) :
        EndsAt(site, k) /\ \A j \in 0..(k - 1) : ~EndsAt(site, j)

\* rows of page 0, then page 1, ... up to page k
RECURSIVE RowsUpTo(_, _)
RowsUpTo(site, k) ==
    IF k < 0 THEN <<>> ELSE RowsUpTo(site, k - 1) \o RowsOfPage(site, k)

\* the pages 0, 1, ..., k in this order
PagesUpTo(k) == [i \in 1..(k + 1) |-> i - 1]

Min(a, b) == IF a <= b THEN a ELSE b

\* C5 as claimed: fetch_joa_page is called no more than 50 times.
C5_AtMost50Calls ==
    joaOut.done => Len(joaOut.requested) <= 50

\* C5 amended: fetch_joa fetches at most 51 pages, the pages 0 to 50; the
\* loop stops after page 50 also when that page has rows and a next link.
C5_AtMost51Calls ==
    joaOut.done =>
        /\ Len(joaOut.requested) <= MaxPage + 1
        /\ \A i \in 1..Len(joaOut.requested) : joaOut.requested[i] <= MaxPage

\* every page from 0 to 50 had rows and a next link, and the call returned
C5_Witness ==
    /\ joaOut.done
    /\ ~joaOut.raised
    /\ Len(joaOut.requested) = MaxPage + 1
    /\ \A p \in 0..MaxPage :
          RowsOfPage(joaSite, p) # <<>> /\ (p + 1) \in PageOf(joaSite, p).links

\* C9 as claimed: the pages requested are 0, 1, ..., k, where k is the first
\* page that yields zero rows or has no link to page k + 1, and the athletes
\* are the rows of the pages 0 to k in this order.
C9_StopsAtFirstEnd ==
    (joaOut.done /\ ~joaOut.raised /\ HasEnd(joaSite)) =>
        LET k == FirstEnd(joaSite)
        IN /\ joaOut.requested = PagesUpTo(k)
           /\ joaOut.athletes = RowsUpTo(joaSite, k)

\* C9 amended: the pages requested are 0, 1, ..., k without a gap, where k
\* is the first page that yields zero rows or has no link to page k + 1, or
\* page 50 when there is no such page up to 50; the athletes are the rows of
\* the pages 0 to k in this order.
C9_StopsAtFirstEndOrCap ==
    joaOut.done =>
        /\ joaOut.requested = PagesUpTo(Len(joaOut.requested) - 1)
        /\ ~joaOut.raised =>
              LET k == IF HasEnd(joaSite) THEN Min(FirstEnd(joaSite), MaxPage) ELSE MaxPage
              IN /\ joaOut.requested = PagesUpTo(k)
                 /\ joaOut.athletes = RowsUpTo(joaSite, k)

\* a call that stopped at a page without a ranking table that links to the
\* next page, after pages with rows
C9_Witness ==
    /\ joaOut.done
    /\ ~joaOut.raised
    /\ joaSite.kind = "notable"
    /\ joaSite.stop \in 2..MaxPage
    /\ (joaSite.stop + 1) \in PageOf(joaSite, joaSite.stop).links
    /\ Len(joaOut.requested) = joaSite.stop + 1
    /\ Len(joaOut.athletes) = joaSite.stop * joaSite.per

(***************************************************************************)
(* Properties of main.                                                     *)
(***************************************************************************)
\* an invocation has finished, and none has started since
Ended == pc = "idle" /\ runNo > 0

\* the index key of attempt i
AttemptKey(i) ==
    IndexKey(AttemptAt(i).source, AttemptAt(i).discipline, Lower(AttemptAt(i).gender))

\* the attempts of the last invocation that fetched and wrote without exception
Succeeded == {i \in 1..Len(outcomes) : outcomes[i] = "ok"}

DiskIndex == indexFile.content

\* the files opened for writing by invocation r, and those written as a whole
TouchedBy(r) == {f \in DOMAIN files : files[f].mtime = r}
WrittenBy(r) == {f \in TouchedBy(r) : files[f].kind = "json" /\ files[f].fetchedAt.run = r}

\* C1: whatever attempts raise, all 8 attempts of the invocation are made, in
\* order, and every attempt that fetched and wrote without exception has its
\* key in the index entry written for today.
C1_FailuresIsolated ==
    /\ pc = "run" => Len(log) = step - 1 /\ Len(outcomes) = step - 1
    /\ Ended =>
          /\ Len(log) = NumAttempts
          /\ \A i \in 1..NumAttempts :
                /\ log[i].source = AttemptAt(i).source
                /\ log[i].discipline = AttemptAt(i).discipline
                /\ log[i].gender = AttemptAt(i).gender
                /\ outcomes[i] = "ok" =>
                      /\ log[i].kind = "saved"
                      /\ today_str \in DOMAIN DiskIndex.dates
                      /\ AttemptKey(i) \in DOMAIN DiskIndex.dates[today_str].refs

\* the IOF fetch of (sprint, W) raised; the 7 other attempts, the JOA attempt
\* of (sprint, W) among them, were made and are in today's entry
C1_Witness ==
    /\ Ended
    /\ Len(outcomes) = NumAttempts
    /\ AttemptAt(7) = [discipline |-> "sprint", gender |-> "W", source |-> "iof"]
    /\ outcomes[7] = "fetch_error"
    /\ \A i \in (1..NumAttempts) \ {7} : outcomes[i] = "ok"
    /\ Cardinality(DOMAIN DiskIndex.dates[today_str].refs) = NumAttempts - 1
    /\ AttemptKey(8) \in DOMAIN DiskIndex.dates[today_str].refs

\* C2: when main() finishes, today's index entry holds updatedAt and a key for
\* exactly the attempts that fetched and wrote without exception; each key's
\* value names the snapshot file written in this invocation for that
\* (source, discipline, gender) and counts its athletes.
C2_EntryIsWhatSucceeded ==
    Ended =>
        /\ today_str \in DOMAIN DiskIndex.dates
        /\ LET entry == DiskIndex.dates[today_str]
           IN /\ entry.updatedAt = Stamp(today_str, runNo)
              /\ DOMAIN entry.refs = {AttemptKey(i) : i \in Succeeded}
              /\ \A i \in Succeeded :
                    LET ref == entry.refs[AttemptKey(i)]
                        a == AttemptAt(i)
                    IN /\ ref.file \in WrittenBy(runNo)
                       /\ files[ref.file].source = Tag(a.source)
                       /\ files[ref.file].discipline = DISCIPLINE_DISPLAY[a.discipline]
                       /\ files[ref.file].gender = a.gender
                       /\ ref.count = Len(files[ref.file].athletes)

\* an invocation with attempts of all three outcomes has finished
C2_Witness ==
    /\ Ended
    /\ Len(outcomes) = NumAttempts
    /\ \A o \in Outcomes : \E i \in 1..NumAttempts : outcomes[i] = o
    /\ \E i \in Succeeded : DiskIndex.dates[today_str].refs[AttemptKey(i)].count > 1

\* the (source, discipline, gender, date) a file name stands for
NameParts(f) == <<f[1], f[2], f[3], f[4]>>

\* the dates on which invocations started
StartDates == {started[i] : i \in 1..Len(started)}

\* C3: however often main() runs on a date, the index holds one entry for the
\* date, the entry of the last invocation, and the data directory holds at
\* most one snapshot file per (source, discipline, gender) and date: the
\* dates of the index and the files of a date do not grow with re-runs. An
\* invocation that ends on the date it started on writes files of that date
\* only, the ones an earlier invocation of the date wrote.
C3_RerunOverwrites ==
    /\ \A f1, f2 \in DOMAIN files : NameParts(f1) = NameParts(f2) => f1 = f2
    /\ \A d \in 1..MaxDay :
          Cardinality({f \in DOMAIN files : f[4] = d}) <= NumAttempts
    /\ Ended =>
          /\ DOMAIN DiskIndex.dates = StartDates
          /\ DiskIndex.dates[today_str].updatedAt.run = runNo
          /\ \A i \in Succeeded :
                DiskIndex.dates[today_str].refs[AttemptKey(i)].file \in WrittenBy(runNo)
          /\ day = today_str => \A f \in TouchedBy(runNo) : f[4] = today_str

\* two invocations ran on the same date without failure: one index entry,
\* 8 files, all of them written by the second invocation
C3_Witness ==
    /\ Ended
    /\ runNo = 2
    /\ started = <<1, 1>>
    /\ day = 1
    /\ Succeeded = 1..NumAttempts
    /\ Cardinality(DOMAIN files) = NumAttempts
    /\ WrittenBy(2) = DOMAIN files
    /\ DOMAIN DiskIndex.dates = {1}

\* C4: an invocation in which every fetch fails ends normally: no snapshot
\* file written, today's entry with updatedAt and no key, latestDate today,
\* index.json and latest.json written, 0 files and 0 athletes reported.
C4_AllFetchesFail ==
    /\ (pc = "run" /\ \A i \in 1..Len(outcomes) : outcomes[i] = "fetch_error") =>
          /\ step = Len(outcomes) + 1
          /\ TouchedBy(runNo) = {}
          /\ DOMAIN date_entry.refs = {}
    /\ (Ended /\ Len(outcomes) = NumAttempts
          /\ \A i \in 1..NumAttempts : outcomes[i] = "fetch_error") =>
          /\ TouchedBy(runNo) = {}
          /\ indexFile.exists
          /\ latestFile = indexFile
          /\ DiskIndex.latestDate = today_str
          /\ today_str \in DOMAIN DiskIndex.dates
          /\ DiskIndex.dates[today_str] =
                [updatedAt |-> Stamp(today_str, runNo), refs |-> <<>>]
          /\ report = [done |-> TRUE, files |-> 0, athletes |-> 0]

\* an invocation that met a network that was down has finished, after an
\* earlier one that saved files on another date
C4_Witness ==
    /\ Ended
    /\ runNo = 2
    /\ mode = "net_down"
    /\ \E d \in DOMAIN DiskIndex.dates : d # today_str /\ DOMAIN DiskIndex.dates[d].refs # {}
    /\ Len(outcomes) = NumAttempts
    /\ \A i \in 1..NumAttempts : outcomes[i] = "fetch_error"
    /\ report.done

\* C8: an invocation changes the index at today's date only: the index
\* written back has the dates of the loaded one and today, and every entry
\* of another date as loaded; latestDate is today.
C8_OtherDatesKept ==
    [][/\ pc = "run" =>
            index = IF indexFile.exists THEN indexFile.content ELSE DefaultIndex
       /\ (pc = "run" /\ pc' = "idle") =>
            /\ indexFile'.exists
            /\ indexFile'.content.latestDate = today_str
            /\ DOMAIN indexFile'.content.dates = DOMAIN index.dates \cup {today_str}
            /\ \A d \in DOMAIN index.dates \ {today_str} :
                  indexFile'.content.dates[d] = index.dates[d]
            /\ indexFile'.content.dates[today_str] = date_entry]_vars

\* an invocation with failures has finished on a date other than that of an
\* earlier entry with keys
C8_Witness ==
    /\ Ended
    /\ mode # "fair"
    /\ \E d \in DOMAIN DiskIndex.dates :
          d # today_str /\ DOMAIN DiskIndex.dates[d].refs # {}

\* C10: between invocations, every {file, count} of every date entry of
\* index.json names a snapshot file that exists, carries the date of the
\* entry in its name and holds count athletes.
C10_IndexMatchesFiles ==
    pc = "idle" =>
        \A d \in DOMAIN DiskIndex.dates :
            \A k \in DOMAIN DiskIndex.dates[d].refs :
                LET ref == DiskIndex.dates[d].refs[k]
                IN /\ ref.file \in DOMAIN files
                   /\ ref.file[4] = d
                   /\ files[ref.file].kind = "json"
                   /\ Len(files[ref.file].athletes) = ref.count

====
